---- MODULE Spec2Model ----
(***************************************************************************)
(* Myopic transformation path of FINE:                                     *)
(*   optimizeMyopic  - the campaign loop over the milestone years          *)
(*   getStock        - the stock roll between two milestone years          *)
(* Python objects live on two heaps (models, components) so that aliasing  *)
(* and copy.deepcopy are visible in the state.                             *)
(***************************************************************************)
EXTENDS Integers, Sequences, FiniteSets, TLC

VARIABLES
    args,           \* the arguments the caller passed to optimizeMyopic
    pc,             \* position inside optimizeMyopic
    error,          \* the exception that left optimizeMyopic, "none" if none
    nbOfSteps,      \* local: resolved number of steps
    nbOfRepresentedYears, \* local: resolved years per step
    step,           \* local: loop variable
    mileStoneYear,  \* local
    esM,            \* local: reference (model id) bound to the name esM
    myopicResults,  \* local: dict key -> reference (model id)
    returned,       \* what the caller received: None or <<dict>>
    modelHeap,      \* model id -> EnergySystemModel object
    compHeap,       \* component id -> component object
    calls           \* the calls made on the collaborators, in order

vars == <<args, pc, error, nbOfSteps, nbOfRepresentedYears, step, mileStoneYear,
          esM, myopicResults, returned, modelHeap, compHeap, calls>>

----------------------------------------------------------------------------
(* Bounds of the model *)

MaxSteps == 2

StartYears == {2020}
RepresentedYears == {10}
Locations == {"l1", "l2"}
\* a technical lifetime per location
Lifetime(a, b) == [l \in Locations |-> IF l = "l1" THEN a ELSE b]

TechnicalLifetimes ==
    {Lifetime(10, 10), Lifetime(10, 15), Lifetime(15, 15), Lifetime(15, 25),
     Lifetime(25, 25)}

CapacityProfiles ==
    {[l \in Locations |-> 0],
     [l \in Locations |-> IF l = "l1" THEN 5 ELSE 0],
     [l \in Locations |-> 5]}
Domains == <<"SourceSinkModel", "TransmissionModel">>
DomainSet == {Domains[i] : i \in 1..Len(Domains)}

----------------------------------------------------------------------------
(* Python values *)

None == <<>>
Some(v) == <<v>>
IsNone(o) == o = <<>>
Val(o) == o[1]

\* pd.Series(0, index=esM.locations)
ZeroSeries == [l \in Locations |-> 0]

\* any(series <= 0)
AnyNonPositive(series) == \E k \in DOMAIN series : series[k] <= 0

\* series - n, elementwise
Minus(series, n) == [k \in DOMAIN series |-> series[k] - n]

Digits == <<"0", "1", "2", "3", "4", "5", "6", "7", "8", "9">>

RECURSIVE StrNat(_)
StrNat(n) == IF n < 10 THEN <<Digits[n + 1]>>
             ELSE StrNat(n \div 10) \o <<Digits[(n % 10) + 1]>>

\* str(int)
Str(n) == IF n < 0 THEN <<"-">> \o StrNat(-n) ELSE StrNat(n)

\* sub in s, for strings as sequences of characters
Contains(s, sub) ==
    \E i \in 1..(Len(s) - Len(sub) + 1) : SubSeq(s, i, i + Len(sub) - 1) = sub

StockWord == <<"s", "t", "o", "c", "k">>

IsStockNameByPrefix(name) ==
    Len(name) >= Len(StockWord) /\ SubSeq(name, 1, Len(StockWord)) = StockWord

\* 'stock' in name
IsStockName(name) == Contains(name, StockWord)

StockNameWithoutYear(comp, year) == comp \o <<"_">> \o StockWord

\* comp+'_stock'+'_'+str(mileStoneYear)
StockName(comp, year) == comp \o <<"_">> \o StockWord \o <<"_">> \o Str(year)

\* 'ESM_'+str(mileStoneYear)
ResultKey(year) == <<"E", "S", "M", "_">> \o Str(year)

----------------------------------------------------------------------------
(* The object heaps *)

Range(f) == {f[x] : x \in DOMAIN f}

\* dict with one more key (or one key rebound)
Put(f, k, v) == [x \in DOMAIN f \cup {k} |-> IF x = k THEN v ELSE f[x]]

EmptyDict == [x \in {} |-> 0]

\* the component objects an EnergySystemModel object refers to
CompIds(model) == UNION {Range(model.componentsDict[d]) : d \in DomainSet}

\* all component names registered in the model (esM.componentNames)
ComponentNames(model) == UNION {DOMAIN model.componentsDict[d] : d \in DomainSet}

\* position of c among the ids of S, in increasing order
Rank(S, c) == Cardinality({d \in S : d <= c})

\* copy.deepcopy(esM): a new model object whose components are new objects
\* with equal attribute values; the optimal values are copied by value.
DeepCopyModel(mh, ch, m) ==
    LET old == CompIds(mh[m])
        base == Len(ch)
        fresh(c) == base + Rank(old, c)
        source(i) == CHOOSE c \in old : fresh(c) = i
        ch2 == [i \in 1..(base + Cardinality(old)) |->
                    IF i <= base THEN ch[i] ELSE ch[source(i)]]
        copy == [mh[m] EXCEPT !.componentsDict =
                    [d \in DomainSet |->
                        [nm \in DOMAIN mh[m].componentsDict[d] |->
                            fresh(mh[m].componentsDict[d][nm])]]]
    IN  [modelHeap |-> Append(mh, copy), compHeap |-> ch2, ref |-> Len(mh) + 1]

\* copy.deepcopy(component): a new component object with equal attributes
DeepCopyComp(ch, c) == [compHeap |-> Append(ch, ch[c]), ref |-> Len(ch) + 1]

----------------------------------------------------------------------------
(* The models a caller may pass in *)

OriginalName(d) == IF d = "SourceSinkModel" THEN <<"p", "v">> ELSE <<"a", "c">>

Original(d, tl, fix) ==
    [name |-> OriginalName(d), modelingClass |-> d,
     technicalLifetime |-> tl, lifetime |-> tl,
     capacityFix |-> fix,
     capacityMax |-> Some([l \in Locations |-> 8]),
     capacityMin |-> Some([l \in Locations |-> 1]),
     sharedPotentialID |-> Some("pot")]

OtherDomain(d) == IF d = Domains[1] THEN Domains[2] ELSE Domains[1]

\* a stock left in the model by an earlier campaign: none, one of the original
\* of domain d made in the year after the start year, or one in the other domain
OldStocks == {"none", "same", "other"}

OldStock(d, tl, old, args0) ==
    IF old = "same"
    THEN [Original(d, tl, Some([l \in Locations |-> 5])) EXCEPT
            !.name = StockName(OriginalName(d),
                               args0.startYear + args0.nbOfRepresentedYears)]
    ELSE [Original(OtherDomain(d), tl, Some([l \in Locations |-> 5])) EXCEPT
            !.name = StockName(OriginalName(OtherDomain(d)),
                               args0.startYear - args0.nbOfRepresentedYears)]

InitialFixes == {None, Some([l \in Locations |-> 3])}

\* the models the caller passes in: the domain and technical lifetime of the
\* original, its capacityFix, and the old stock
CallerChoices ==
    {[d |-> Domains[1], tl |-> tl, fix |-> None, old |-> "none"] :
        tl \in TechnicalLifetimes}
    \cup
    {[d |-> Domains[2], tl |-> tl, fix |-> None, old |-> "none"] :
        tl \in {Lifetime(10, 15), Lifetime(15, 15)}}
    \cup
    {[d |-> d, tl |-> Lifetime(15, 15), fix |-> fix, old |-> "none"] :
        d \in DomainSet, fix \in InitialFixes}
    \cup
    {[d |-> Domains[1], tl |-> Lifetime(15, 25), fix |-> None, old |-> "same"],
     [d |-> Domains[1], tl |-> Lifetime(10, 15), fix |-> None, old |-> "other"]}

\* the caller's components: the original of domain d and possibly an old stock
CallerComps(d, tl, fix, old, args0) ==
    IF old = "none" THEN <<Original(d, tl, fix)>>
    ELSE <<Original(d, tl, fix), OldStock(d, tl, old, args0)>>

\* the caller's model over these component objects
CallerModel(comps) ==
    [componentsDict |->
        [e \in DomainSet |->
            [nm \in {comps[i].name : i \in {j \in DOMAIN comps :
                                               comps[j].modelingClass = e}} |->
                CHOOSE i \in DOMAIN comps : comps[i].name = nm]],
     optimum |-> [e \in DomainSet |-> None],
     co2Sink |-> FALSE]

\* the campaigns that are also run on the full time series
\* (timeSeriesAggregation=False); all are run with the default, True
FullSeriesChoices ==
    {[d |-> Domains[1], tl |-> Lifetime(15, 15), fix |-> None, old |-> "none"]}

\* the lists of CO2 reduction targets a caller passes: one target for each of
\* the MaxSteps+1 optimization runs of the longest campaign
TargetLists == {[i \in 1..(MaxSteps + 1) |-> 50 + 10 * i]}

\* the campaigns called with CO2ReductionTargets: on one model, with and
\* without the sink 'CO2 to environment'; all others are called with the
\* default, None, on a model without the sink
TargetChoices ==
    {[c |-> c, targets |-> Some(t), sink |-> k, tsa |-> TRUE] :
        c \in FullSeriesChoices, t \in TargetLists, k \in BOOLEAN}

CampaignChoices ==
    {[c |-> c, targets |-> None, sink |-> FALSE, tsa |-> tsa] :
        c \in CallerChoices \ FullSeriesChoices, tsa \in {TRUE}}
    \cup {[c |-> c, targets |-> None, sink |-> FALSE, tsa |-> tsa] :
        c \in FullSeriesChoices, tsa \in BOOLEAN}
    \cup TargetChoices

Init ==
    /\ \E g \in CampaignChoices :
          /\ \E sy \in StartYears, ns \in 0..MaxSteps, ry \in RepresentedYears :
                args = [esM |-> 1, startYear |-> sy, nbOfSteps |-> ns,
                        nbOfRepresentedYears |-> ry,
                        timeSeriesAggregation |-> g.tsa,
                        CO2ReductionTargets |-> g.targets]
          /\ compHeap = CallerComps(g.c.d, g.c.tl, g.c.fix, g.c.old, args)
          /\ modelHeap = <<[CallerModel(compHeap) EXCEPT !.co2Sink = g.sink]>>
    /\ pc = "validate"
    /\ error = "none"
    /\ nbOfSteps = 0
    /\ nbOfRepresentedYears = 0
    /\ step = 0
    /\ mileStoneYear = 0
    /\ esM = args.esM
    /\ myopicResults = EmptyDict
    /\ returned = None
    /\ calls = <<>>

----------------------------------------------------------------------------
(* Optimal capacity tables: what getOptimalValues('capacityVariablesOptimum') *)
(* gives after a solve.  A row is a Series over the locations or, for the    *)
(* two-dimensional domain, a DataFrame location x location with NaN cells.   *)

Links == Locations \X Locations

NaN == <<>>

SeriesRow(f) == [frame |-> FALSE, data |-> f]

FrameRow(f) ==
    [frame |-> TRUE,
     data |-> [k \in Links |-> IF k[1] = k[2] THEN NaN ELSE Some(f[k[1]])]]

Row(d, f) == IF d = "TransmissionModel" THEN FrameRow(f) ELSE SeriesRow(f)

Rows(d) == {Row(d, f) : f \in CapacityProfiles}

\* DataFrame.fillna(value=v)
FillNa(data, v) == [k \in DOMAIN data |-> IF data[k] = NaN THEN v ELSE Val(data[k])]

\* utils.preprocess2dimData(data, discard=False): the Series of the cells >= 0,
\* indexed by the pair of locations
Preprocess2dimData(data) ==
    [k \in {j \in DOMAIN data : data[j] >= 0} |-> data[k]]

----------------------------------------------------------------------------
(* getStock *)

LifetimeNotReduced(comp, n) == comp.technicalLifetime

\* technicalLifetime - nbOfRepresentedYears                         (line 122)
CandidateLifetime(comp, n) == Minus(comp.technicalLifetime, n)

SkipsOnlyNegative(lifetime) == \E k \in DOMAIN lifetime : lifetime[k] < 0

SkipsWhenAllExpired(lifetime) == \A k \in DOMAIN lifetime : lifetime[k] <= 0

\* if any(getattr(stockComp,'lifetime') <= 0): continue        (lines 123-124)
SkipsCreation(lifetime) == AnyNonPositive(lifetime)

StockCapacityFixFromTable(stockComp, row) ==
    IF row.frame THEN Some(Preprocess2dimData(FillNa(row.data, -1)))
    ELSE Some(row.data)

\* the capacityFix of the new stock component                  (lines 126-130)
StockCapacityFix(stockComp, row) ==
    IF IsNone(stockComp.capacityFix)
    THEN IF row.frame
         THEN Some(Preprocess2dimData(FillNa(row.data, -1)))
         ELSE Some(row.data)
    ELSE stockComp.capacityFix

\* the new stock component: a deep copy of the original, renamed (lines 119-130)
StockComp(comp, key, row, year, n) ==
    LET renamed == [comp EXCEPT !.name = StockName(key, year),
                                !.lifetime = CandidateLifetime(comp, n)]
    IN  [renamed EXCEPT !.capacityFix = StockCapacityFix(renamed, row)]

\* esM.add(component): registers the component under its name in the
\* componentsDict of its modeling class; fails if the name already exists.
Add(st, m, comp) ==
    IF comp.name \in ComponentNames(st.modelHeap[m])
    THEN [st EXCEPT !.raised = TRUE]
    ELSE [st EXCEPT
            !.compHeap = Append(st.compHeap, comp),
            !.modelHeap[m].componentsDict[comp.modelingClass] =
                Put(st.modelHeap[m].componentsDict[comp.modelingClass],
                    comp.name, Len(st.compHeap) + 1),
            !.adds = Append(st.adds, comp.name)]

ExpireWhenAllExpired(comp) ==
    IF \A k \in DOMAIN comp.lifetime : comp.lifetime[k] <= 0
    THEN [comp EXCEPT !.capacityFix = Some(ZeroSeries),
                      !.capacityMax = Some(ZeroSeries),
                      !.capacityMin = Some(ZeroSeries),
                      !.sharedPotentialID = None]
    ELSE comp

ExpireKeepsSharedPotential(comp) ==
    IF AnyNonPositive(comp.lifetime)
    THEN [comp EXCEPT !.capacityFix = Some(ZeroSeries),
                      !.capacityMax = Some(ZeroSeries),
                      !.capacityMin = Some(ZeroSeries)]
    ELSE comp

\* the expiry of an existing stock component                    (lines 139-143)
Expire(comp) ==
    IF AnyNonPositive(comp.lifetime)
    THEN [comp EXCEPT !.capacityFix = Some(ZeroSeries),
                      !.capacityMax = Some(ZeroSeries),
                      !.capacityMin = Some(ZeroSeries),
                      !.sharedPotentialID = None]
    ELSE comp

RollStockAddsYears(comp, n) ==
    Expire([comp EXCEPT !.lifetime = Minus(comp.lifetime, 0 - n)])

RollStockTwice(comp, n) ==
    Expire([comp EXCEPT !.lifetime = Minus(comp.lifetime, 2 * n)])

\* the in-place update of an existing stock component           (lines 138-143)
RollStock(comp, n) == Expire([comp EXCEPT !.lifetime = Minus(comp.lifetime, n)])

ProcessCompWithoutCopy(st, m, d, key, row, year, n) ==
    LET c == st.modelHeap[m].componentsDict[d][key]
        comp == st.compHeap[c]
    IN  IF st.raised THEN st
        ELSE IF ~IsStockName(comp.name)
        THEN IF SkipsCreation(CandidateLifetime(comp, n)) THEN st
             ELSE Add([st EXCEPT !.compHeap[c] = StockComp(comp, key, row, year, n)],
                      m, StockComp(comp, key, row, year, n))
        ELSE [st EXCEPT !.compHeap[c] = RollStock(comp, n)]

\* one iteration of the loop over the rows of a table           (lines 117-143)
ProcessComp(st, m, d, key, row, year, n) ==
    LET c == st.modelHeap[m].componentsDict[d][key]
        comp == st.compHeap[c]
    IN  IF st.raised THEN st
        ELSE IF ~IsStockName(comp.name)
        THEN IF SkipsCreation(CandidateLifetime(comp, n)) THEN st
             ELSE Add(st, m, StockComp(comp, key, row, year, n))
        ELSE [st EXCEPT !.compHeap[c] = RollStock(comp, n)]

\* the rows of one table, in the order of its index
RECURSIVE ProcessRows(_, _, _, _, _, _, _)
ProcessRows(st, m, d, order, table, year, n) ==
    IF order = <<>> THEN st
    ELSE ProcessRows(ProcessComp(st, m, d, Head(order), table[Head(order)], year, n),
                     m, d, Tail(order), table, year, n)

\* the orders in which the index of a table can list its rows
RECURSIVE Orderings(_)
Orderings(S) ==
    IF S = {} THEN {<<>>}
    ELSE UNION {{<<x>> \o o : o \in Orderings(S \ {x})} : x \in S}

ProcessDomainWithoutResult(st, m, d, order, year, n) ==
    LET compValues == st.modelHeap[m].optimum[d]
        names == DOMAIN st.modelHeap[m].componentsDict[d]
    IN  IF IsNone(compValues)
        THEN ProcessRows(st, m, d, CHOOSE o \in Orderings(names) : TRUE,
                         [nm \in names |-> Row(d, [l \in Locations |-> 0])], year, n)
        ELSE ProcessRows(st, m, d, order, Val(compValues), year, n)

\* one modeling domain: skipped if it has no optimal values    (lines 115-117)
ProcessDomain(st, m, d, order, year, n) ==
    LET compValues == st.modelHeap[m].optimum[d]
    IN  IF IsNone(compValues) THEN st
        ELSE ProcessRows(st, m, d, order, Val(compValues), year, n)

\* the loop over the modeling domains                                (line 114)
\* orders[d] is the order of the index of the table of domain d
RECURSIVE ProcessDomains(_, _, _, _, _, _)
ProcessDomains(st, m, i, orders, year, n) ==
    IF i > Len(Domains) THEN st
    ELSE ProcessDomains(ProcessDomain(st, m, Domains[i], orders[Domains[i]], year, n),
                        m, i + 1, orders, year, n)

\* getStock(esM, mileStoneYear, nbOfRepresentedYears): mutates the model it is
\* given and returns that same object
GetStock(mh, ch, m, orders, year, n) ==
    LET st == ProcessDomains([modelHeap |-> mh, compHeap |-> ch,
                              raised |-> FALSE, adds |-> <<>>],
                             m, 1, orders, year, n)
    IN  [modelHeap |-> st.modelHeap, compHeap |-> st.compHeap,
         raised |-> st.raised, adds |-> st.adds, ref |-> m]

IndexOrdersOf(model, d) ==
    IF IsNone(model.optimum[d]) THEN {<<>>}
    ELSE Orderings(DOMAIN Val(model.optimum[d]))

IndexOrders(model) ==
    {[d \in DomainSet |-> IF d = Domains[1] THEN a ELSE b] :
        a \in IndexOrdersOf(model, Domains[1]),
        b \in IndexOrdersOf(model, Domains[2])}

----------------------------------------------------------------------------
(* What a solve can leave in the model *)

\* the row of a stock component: getStock never reads it, so one value is kept
StockRow(d) == Row(d, [l \in Locations |-> 5])

\* the index of a table: all components of the domain, only the originals
\* or only the stock components
IndexChoices(names) ==
    {names, {nm \in names : ~IsStockName(nm)}, {nm \in names : IsStockName(nm)}}
        \ {{}}

\* the tables a solve can leave for domain d, or None
TableChoices(model, d) ==
    {None} \cup
    {Some([nm \in S |-> IF IsStockName(nm) THEN StockRow(d) ELSE r]) :
        S \in IndexChoices(DOMAIN model.componentsDict[d]), r \in Rows(d)}

PerDomain(a, b) == [d \in DomainSet |-> IF d = Domains[1] THEN a ELSE b]

SolverResults(model) ==
    {PerDomain(a, b) : a \in TableChoices(model, Domains[1]),
                       b \in TableChoices(model, Domains[2])}

----------------------------------------------------------------------------
(* optimizeMyopic *)

Call(op) == [op |-> op, step |-> step, model |-> esM]

Raise(e) ==
    /\ pc' = "raised"
    /\ error' = e

\* utils.checkAndSetTimeHorizon: at least two optimization runs
HorizonIsValid(a) == a.nbOfSteps >= 1

\* utils.checkSinkCompCO2toEnvironment: targets need the CO2 sink in the model
CheckSinkCompCO2toEnvironment(model, targets) ==
    IsNone(targets) \/ model.co2Sink

\* utils.checkCO2ReductionTargets: as many targets as steps
CheckCO2ReductionTargets(targets, n) ==
    IsNone(targets) \/ Len(Val(targets)) = n

\* the locals of lines 79-80, set when the checks have passed
EnterLoop ==
    /\ nbOfSteps' = args.nbOfSteps
    /\ nbOfRepresentedYears' = args.nbOfRepresentedYears
    /\ mileStoneYear' = args.startYear
    /\ pc' = "loop"
    /\ UNCHANGED error

ValidateHorizonOnly ==
    /\ pc = "validate"
    /\ IF ~HorizonIsValid(args)
       THEN /\ Raise("ConfigurationError")
            /\ UNCHANGED <<nbOfSteps, nbOfRepresentedYears, mileStoneYear>>
       ELSE EnterLoop
    /\ UNCHANGED <<args, step, esM, myopicResults, returned, modelHeap, compHeap,
                   calls>>

\* lines 74-80: the three checks, then the locals
Validate ==
    /\ pc = "validate"
    /\ IF \/ ~HorizonIsValid(args)
          \/ ~CheckSinkCompCO2toEnvironment(modelHeap[esM], args.CO2ReductionTargets)
          \/ ~CheckCO2ReductionTargets(args.CO2ReductionTargets, args.nbOfSteps)
       THEN /\ Raise("ConfigurationError")
            /\ UNCHANGED <<nbOfSteps, nbOfRepresentedYears, mileStoneYear>>
       ELSE EnterLoop
    /\ UNCHANGED <<args, step, esM, myopicResults, returned, modelHeap, compHeap,
                   calls>>

MileStoneYearFromNextStep(startYear, s, n) == startYear + (s + 1) * n

\* mileStoneYear = startYear + step*nbOfRepresentedYears            (line 83)
MileStoneYear(startYear, s, n) == startYear + s * n

AlwaysCluster(tsa) == "cluster"

\* if timeSeriesAggregation: esM.cluster(...)                   (lines 87-88)
AfterHead(tsa) == IF tsa THEN "cluster" ELSE "optimize"

\* lines 82-87: the head of one iteration.  utils.setNewCO2ReductionTarget
\* (line 85) does nothing without targets, and no campaign with targets passes
\* the checks of Validate.
BeginStep ==
    /\ pc = "loop"
    /\ step <= nbOfSteps
    /\ mileStoneYear' = MileStoneYear(args.startYear, step, nbOfRepresentedYears)
    /\ pc' = AfterHead(args.timeSeriesAggregation)
    /\ UNCHANGED <<args, error, nbOfSteps, nbOfRepresentedYears, step, esM,
                   myopicResults, returned, modelHeap, compHeap, calls>>

\* line 88: esM.cluster(...)
Cluster ==
    /\ pc = "cluster"
    /\ calls' = Append(calls, Call("cluster"))
    /\ pc' = "optimize"
    /\ UNCHANGED <<args, error, nbOfSteps, nbOfRepresentedYears, step,
                   mileStoneYear, esM, myopicResults, returned, modelHeap, compHeap>>

\* lines 90-92: esM.optimize(...) stores the optimal values in the model
Optimize ==
    /\ pc = "optimize"
    /\ calls' = Append(calls, Call("optimize"))
    /\ \E o \in SolverResults(modelHeap[esM]) :
          modelHeap' = [modelHeap EXCEPT ![esM].optimum = o]
    /\ pc' = "export"
    /\ UNCHANGED <<args, error, nbOfSteps, nbOfRepresentedYears, step,
                   mileStoneYear, esM, myopicResults, returned, compHeap>>

\* lines 90-92: esM.optimize(...) raises
OptimizeFails ==
    /\ pc = "optimize"
    /\ calls' = Append(calls, Call("optimize"))
    /\ Raise("SolverFailure")
    /\ UNCHANGED <<args, nbOfSteps, nbOfRepresentedYears, step, mileStoneYear,
                   esM, myopicResults, returned, modelHeap, compHeap>>

\* line 93: standardIO.writeOptimizationOutputToExcel(esM, ...)
Export ==
    /\ pc = "export"
    /\ calls' = Append(calls, Call("export"))
    /\ pc' = "snapshot"
    /\ UNCHANGED <<args, error, nbOfSteps, nbOfRepresentedYears, step,
                   mileStoneYear, esM, myopicResults, returned, modelHeap, compHeap>>

\* line 93: the export raises
ExportFails ==
    /\ pc = "export"
    /\ calls' = Append(calls, Call("export"))
    /\ Raise("ExportFailure")
    /\ UNCHANGED <<args, nbOfSteps, nbOfRepresentedYears, step, mileStoneYear,
                   esM, myopicResults, returned, modelHeap, compHeap>>

SnapshotByReference(mh, ch, m) == [modelHeap |-> mh, compHeap |-> ch, ref |-> m]

SnapshotOfRolled(mh, ch, m) ==
    LET s == DeepCopyModel(mh, ch, m)
        r == GetStock(s.modelHeap, s.compHeap, s.ref,
                      CHOOSE o \in IndexOrders(s.modelHeap[s.ref]) : TRUE,
                      mileStoneYear, nbOfRepresentedYears)
    IN  [modelHeap |-> r.modelHeap, compHeap |-> r.compHeap, ref |-> s.ref]

\* the object stored in myopicResults                               (line 94)
SnapshotOf(mh, ch, m) == DeepCopyModel(mh, ch, m)

\* line 94: myopicResults.update({'ESM_'+str(mileStoneYear): copy.deepcopy(esM)})
Snapshot ==
    /\ pc = "snapshot"
    /\ LET s == SnapshotOf(modelHeap, compHeap, esM)
       IN  /\ modelHeap' = s.modelHeap
           /\ compHeap' = s.compHeap
           /\ myopicResults' = Put(myopicResults, ResultKey(mileStoneYear), s.ref)
    /\ calls' = Append(calls, Call("snapshot"))
    /\ pc' = "roll"
    /\ UNCHANGED <<args, error, nbOfSteps, nbOfRepresentedYears, step,
                   mileStoneYear, esM, returned>>

\* the model object handed to getStock                              (line 96)
StockArgument(m) == m

\* line 96: esM = getStock(esM, mileStoneYear, nbOfRepresentedYears)
Roll ==
    /\ pc = "roll"
    /\ \E orders \in IndexOrders(modelHeap[StockArgument(esM)]) :
          LET r == GetStock(modelHeap, compHeap, StockArgument(esM), orders,
                            mileStoneYear, nbOfRepresentedYears)
          IN  /\ modelHeap' = r.modelHeap
              /\ compHeap' = r.compHeap
              /\ calls' = Append(calls,
                     [op |-> "getStock", step |-> step,
                      model |-> StockArgument(esM), adds |-> r.adds,
                      result |-> r.ref])
              /\ IF r.raised
                 THEN /\ Raise("RegistrationCollision")
                      /\ UNCHANGED <<esM, step>>
                 ELSE /\ esM' = r.ref
                      /\ step' = step + 1
                      /\ pc' = "loop"
                      /\ UNCHANGED error
    /\ UNCHANGED <<args, nbOfSteps, nbOfRepresentedYears, mileStoneYear,
                   myopicResults, returned>>

\* line 98: return myopicResults
Return ==
    /\ pc = "loop"
    /\ step > nbOfSteps
    /\ returned' = Some(myopicResults)
    /\ pc' = "done"
    /\ UNCHANGED <<args, error, nbOfSteps, nbOfRepresentedYears, step,
                   mileStoneYear, esM, myopicResults, modelHeap, compHeap, calls>>

Next ==
    \/ Validate
    \/ BeginStep
    \/ Cluster
    \/ Optimize
    \/ OptimizeFails
    \/ Export
    \/ ExportFails
    \/ Snapshot
    \/ Roll
    \/ Return

Spec == Init /\ [][Next]_vars

----------------------------------------------------------------------------
(* Properties *)

\* the attribute values of all components of a model object, and its tables
ModelValue(mh, ch, m) ==
    [components |-> [d \in DomainSet |->
                        [nm \in DOMAIN mh[m].componentsDict[d] |->
                            ch[mh[m].componentsDict[d][nm]]]],
     optimum |-> mh[m].optimum]

Chars(year) == <<"E", "S", "M", "_">> \o Str(year)

\* C1: a campaign in which every step succeeds returns a mapping whose keys are
\* exactly ESM_<startYear + k*nbOfRepresentedYears>, k = 0..nbOfSteps, and
\* which therefore has nbOfSteps+1 entries.
C1_ReturnedKeys ==
    pc = "done" =>
        /\ DOMAIN Val(returned) =
              {Chars(args.startYear + k * nbOfRepresentedYears) : k \in 0..nbOfSteps}
        /\ Cardinality(DOMAIN Val(returned)) = nbOfSteps + 1

C1_Witness ==
    /\ pc = "done"
    /\ args.startYear = 2020 /\ nbOfSteps = 2 /\ nbOfRepresentedYears = 10
    /\ DOMAIN Val(returned) =
          {<<"E", "S", "M", "_", "2", "0", "2", "0">>,
           <<"E", "S", "M", "_", "2", "0", "3", "0">>,
           <<"E", "S", "M", "_", "2", "0", "4", "0">>}

\* no component object is reachable from two entries of myopicResults, nor from
\* an entry and the model bound to esM
NoSharedComponent ==
    /\ \A k \in DOMAIN myopicResults :
          /\ myopicResults[k] # esM
          /\ CompIds(modelHeap[myopicResults[k]]) \cap CompIds(modelHeap[esM]) = {}
    /\ \A k1, k2 \in DOMAIN myopicResults :
          k1 # k2 =>
              /\ myopicResults[k1] # myopicResults[k2]
              /\ CompIds(modelHeap[myopicResults[k1]])
                    \cap CompIds(modelHeap[myopicResults[k2]]) = {}

\* C2: once a snapshot is stored under its key, no later step changes the entry
\* or any attribute of any component of the snapshot, and no two entries (nor an
\* entry and the model that keeps evolving) share a component object.
C2_SnapshotsIndependent ==
    [][/\ \A k \in DOMAIN myopicResults :
              /\ k \in DOMAIN myopicResults'
              /\ myopicResults'[k] = myopicResults[k]
              /\ ModelValue(modelHeap', compHeap', myopicResults[k])
                    = ModelValue(modelHeap, compHeap, myopicResults[k])
       /\ NoSharedComponent']_vars

\* two snapshots are stored and the model has moved on from both
C2_Witness ==
    /\ pc = "done"
    /\ \E k1, k2 \in DOMAIN myopicResults :
          /\ k1 # k2
          /\ ModelValue(modelHeap, compHeap, myopicResults[k1]).components
                # ModelValue(modelHeap, compHeap, myopicResults[k2]).components
          /\ ModelValue(modelHeap, compHeap, myopicResults[k2]).components
                # ModelValue(modelHeap, compHeap, esM).components
          /\ ModelValue(modelHeap, compHeap, myopicResults[k1]).components
                # ModelValue(modelHeap, compHeap, esM).components

\* C3: the model handed to getStock is a dedicated copy: neither the object the
\* caller passed in nor the object that was just solved.
C3_RollerGetsDedicatedCopy ==
    \A i \in DOMAIN calls :
        calls[i].op = "getStock" =>
            /\ calls[i].model # args.esM
            /\ \A j \in 1..(i - 1) :
                  calls[j].op = "optimize" => calls[j].model # calls[i].model

----------------------------------------------------------------------------
(* A step of getStock, seen from outside: the model before and after *)

\* a call of getStock is made in this step, and it returns
RollReturns == pc = "roll" /\ pc' = "loop"

\* a call of getStock is made in this step (it returns or raises)
RollCalled == pc = "roll" /\ pc' # "roll"

Before == ModelValue(modelHeap, compHeap, esM)
After == ModelValue(modelHeap', compHeap', esM)

\* the names registered by esM.add during the call
Added == {calls'[Len(calls')].adds[i] : i \in DOMAIN calls'[Len(calls')].adds}

NamesOf(value) == UNION {DOMAIN value.components[d] : d \in DomainSet}

\* the rows of the table of domain d that getStock goes through
Processed(d) ==
    IF IsNone(Before.optimum[d]) THEN {} ELSE DOMAIN Val(Before.optimum[d])

\* the rows of non-stock components
ProcessedOriginals(d) ==
    {nm \in Processed(d) : ~IsStockName(Before.components[d][nm].name)}

\* the rows of stock components
ProcessedStocks(d) ==
    {nm \in Processed(d) : IsStockName(Before.components[d][nm].name)}

IsPrefix(p, q) == Len(p) <= Len(q) /\ SubSeq(q, 1, Len(p)) = p

\* <c>_stock_<year>, written out
Marked(c, year) == c \o <<"_", "s", "t", "o", "c", "k", "_">> \o Str(year)

PositiveEverywhere(comp, n) == \A l \in Locations : comp.technicalLifetime[l] - n > 0
ExpiredEverywhere(comp, n) == \A l \in Locations : comp.technicalLifetime[l] - n <= 0

\* C4: a non-stock component c of the table whose candidate lifetime is > 0 at
\* every location gets exactly one new component <c>_stock_<mileStoneYear> in
\* the returned model, equal to c except for its name, its lifetime
\* (technicalLifetime - n) and possibly its capacityFix.
C4_StockCreated ==
    [][RollReturns =>
        \A d \in DomainSet : \A c \in ProcessedOriginals(d) :
            PositiveEverywhere(Before.components[d][c], nbOfRepresentedYears) =>
                LET sn == Marked(c, mileStoneYear)
                    orig == Before.components[d][c]
                IN  /\ sn \notin NamesOf(Before)
                    /\ {x \in NamesOf(After) \ NamesOf(Before) : IsPrefix(c, x)} = {sn}
                    /\ sn \in DOMAIN After.components[d]
                    /\ After.components[d][sn] =
                          [orig EXCEPT
                             !.name = sn,
                             !.lifetime = [l \in Locations |->
                                 orig.technicalLifetime[l] - nbOfRepresentedYears],
                             !.capacityFix = After.components[d][sn].capacityFix]
                    /\ After.components[d][c] = orig]_vars

\* technicalLifetime 15 rolled by 10: the stock of 2020 has lifetime 5
C4_Witness ==
    /\ pc = "loop" /\ step = 1
    /\ \E d \in DomainSet :
          /\ OriginalName(d) \in DOMAIN modelHeap[esM].componentsDict[d]
          /\ \A l \in Locations :
                compHeap[modelHeap[esM].componentsDict[d][OriginalName(d)]]
                    .technicalLifetime[l] = 15
          /\ Marked(OriginalName(d), 2020) \in DOMAIN modelHeap[esM].componentsDict[d]
          /\ \A l \in Locations :
                compHeap[modelHeap[esM].componentsDict[d]
                            [Marked(OriginalName(d), 2020)]].lifetime[l] = 5

\* C5: a non-stock component of the table whose candidate lifetime is <= 0 at
\* every location gets no stock component: nothing is registered for it and the
\* names derived from it are the same before and after the call.
C5_NoStockWhenExpired ==
    [][RollCalled =>
        \A d \in DomainSet : \A c \in ProcessedOriginals(d) :
            ExpiredEverywhere(Before.components[d][c], nbOfRepresentedYears) =>
                /\ Marked(c, mileStoneYear) \notin Added
                /\ {x \in NamesOf(After) : IsPrefix(c, x)}
                      = {x \in NamesOf(Before) : IsPrefix(c, x)}]_vars

\* technicalLifetime 10 rolled by 10 with capacity 5 everywhere: only the original
C5_Witness ==
    /\ pc = "loop" /\ step = 1
    /\ \E d \in DomainSet :
          /\ ~IsNone(modelHeap[esM].optimum[d])
          /\ DOMAIN modelHeap[esM].componentsDict[d] = {OriginalName(d)}
          /\ OriginalName(d) \in DOMAIN Val(modelHeap[esM].optimum[d])
          /\ Val(modelHeap[esM].optimum[d])[OriginalName(d)]
                = Row(d, [l \in Locations |-> 5])
          /\ \A l \in Locations :
                compHeap[modelHeap[esM].componentsDict[d][OriginalName(d)]]
                    .technicalLifetime[l] = 10

\* C6 as claimed: a stock component is created whenever the candidate lifetime
\* is > 0 at at least one location.
C6_CreatedIfPositiveSomewhere ==
    [][RollReturns =>
        \A d \in DomainSet : \A c \in ProcessedOriginals(d) :
            (\E l \in Locations :
                Before.components[d][c].technicalLifetime[l] - nbOfRepresentedYears > 0)
                => Marked(c, mileStoneYear) \in Added]_vars

\* C6 as amended: in a call that returns, the stock component of a non-stock
\* component of the table is created and registered exactly if the candidate
\* lifetime is > 0 at every location; it is skipped as soon as the candidate
\* lifetime is <= 0 at one location.
C6_CreatedIffPositiveEverywhere ==
    [][RollReturns =>
        \A d \in DomainSet : \A c \in ProcessedOriginals(d) :
            /\ Marked(c, mileStoneYear) \in Added
                  <=> PositiveEverywhere(Before.components[d][c], nbOfRepresentedYears)
            /\ Marked(c, mileStoneYear) \in NamesOf(After) \ NamesOf(Before)
                  <=> PositiveEverywhere(Before.components[d][c], nbOfRepresentedYears)
       ]_vars

\* the mixed case: expired at l1, alive at l2, in the table, and no stock made
C6_Witness ==
    /\ pc = "loop" /\ step = 1
    /\ \E d \in DomainSet :
          /\ ~IsNone(modelHeap[esM].optimum[d])
          /\ OriginalName(d) \in DOMAIN Val(modelHeap[esM].optimum[d])
          /\ LET orig == compHeap[modelHeap[esM].componentsDict[d][OriginalName(d)]]
             IN  /\ orig.technicalLifetime["l1"] - nbOfRepresentedYears <= 0
                 /\ orig.technicalLifetime["l2"] - nbOfRepresentedYears > 0
          /\ calls[Len(calls)].op = "getStock"
          /\ calls[Len(calls)].adds = <<>>
          /\ DOMAIN modelHeap[esM].componentsDict[d] = {OriginalName(d)}

\* the capacityFix fix holds the optimal values of the row, entry by entry
\* (for a DataFrame row: the cells that are not NaN)
EqualsOptimum(fix, row) ==
    IF row.frame
    THEN /\ DOMAIN fix = {k \in Links : row.data[k] # NaN}
         /\ \A k \in DOMAIN fix : <<fix[k]>> = row.data[k]
    ELSE /\ DOMAIN fix = Locations
         /\ \A l \in Locations : fix[l] = row.data[l]

\* the names registered by esM.add in all calls of getStock so far
AllAdded ==
    UNION {{calls[i].adds[j] : j \in DOMAIN calls[i].adds} :
              i \in {k \in DOMAIN calls : calls[k].op = "getStock"}}

\* every component made by getStock, in every model object, has a capacityFix
CreatedHaveFix ==
    \A m \in DOMAIN modelHeap : \A d \in DomainSet :
        \A nm \in DOMAIN modelHeap[m].componentsDict[d] :
            nm \in AllAdded =>
                ~IsNone(compHeap[modelHeap[m].componentsDict[d][nm]].capacityFix)

\* C7: a new stock component always has a capacityFix: the optimal capacities
\* of its original in the step just solved if the original had none, else the
\* capacityFix of the original; so no component made by getStock ever lacks one.
C7_StockHasCapacityFix ==
    [][/\ RollCalled =>
            /\ Added \subseteq
                  UNION {{Marked(c, mileStoneYear) : c \in ProcessedOriginals(d)} :
                            d \in DomainSet}
            /\ \A d \in DomainSet : \A c \in ProcessedOriginals(d) :
                  Marked(c, mileStoneYear) \in Added =>
                      LET stock == After.components[d][Marked(c, mileStoneYear)]
                          orig == Before.components[d][c]
                          row == Val(Before.optimum[d])[c]
                      IN  /\ ~IsNone(stock.capacityFix)
                          /\ IF IsNone(orig.capacityFix)
                             THEN EqualsOptimum(Val(stock.capacityFix), row)
                             ELSE stock.capacityFix = orig.capacityFix
       /\ CreatedHaveFix']_vars

\* a stock made from an original without capacityFix and the optimum (5, 0),
\* and one made from an original with capacityFix 3 and another optimum
C7_Witness ==
    /\ pc = "loop" /\ step = 1
    /\ \E d \in DomainSet :
          /\ Marked(OriginalName(d), 2020) \in AllAdded
          /\ LET stock == compHeap[modelHeap[esM].componentsDict[d]
                                      [Marked(OriginalName(d), 2020)]]
                 orig == compHeap[modelHeap[esM].componentsDict[d][OriginalName(d)]]
             IN  /\ IsNone(orig.capacityFix)
                 /\ Val(modelHeap[esM].optimum[d])[OriginalName(d)] =
                       Row(d, [l \in Locations |-> IF l = "l1" THEN 5 ELSE 0])
                 /\ d = "SourceSinkModel" =>
                       stock.capacityFix = <<[l \in Locations |->
                                                IF l = "l1" THEN 5 ELSE 0]>>
                 /\ d = "TransmissionModel" =>
                       stock.capacityFix =
                           <<[k \in {<<"l1", "l2">>, <<"l2", "l1">>} |->
                                IF k[1] = "l1" THEN 5 ELSE 0]>>

\* C8: a stock component of the table has its lifetime reduced by exactly
\* nbOfRepresentedYears; if the result is <= 0 at any location its capacityFix,
\* capacityMax and capacityMin become zero at every location and its
\* sharedPotentialID None, otherwise these four keep their values; it stays in
\* the model and nothing else of it changes.
C8_StockRolled ==
    [][RollReturns =>
        \A d \in DomainSet : \A c \in ProcessedStocks(d) :
            /\ c \in DOMAIN After.components[d]
            /\ LET b == Before.components[d][c]
                   a == After.components[d][c]
                   life == [l \in Locations |-> b.lifetime[l] - nbOfRepresentedYears]
               IN  IF \E l \in Locations : life[l] <= 0
                   THEN a = [b EXCEPT
                               !.lifetime = life,
                               !.capacityFix = <<[l \in Locations |-> 0]>>,
                               !.capacityMax = <<[l \in Locations |-> 0]>>,
                               !.capacityMin = <<[l \in Locations |-> 0]>>,
                               !.sharedPotentialID = <<>>]
                   ELSE a = [b EXCEPT !.lifetime = life]]_vars

\* a stock of lifetime 5 rolled by 10: lifetime -5, zero capacities, no shared id
C8_Witness ==
    /\ pc = "loop" /\ step = 2 /\ nbOfRepresentedYears = 10
    /\ \E d \in DomainSet : \E nm \in DOMAIN modelHeap[esM].componentsDict[d] :
          LET comp == compHeap[modelHeap[esM].componentsDict[d][nm]]
          IN  /\ nm = Marked(OriginalName(d), 2020)
              /\ \A l \in Locations : comp.technicalLifetime[l] = 15
              /\ \A l \in Locations : comp.lifetime[l] = -5
              /\ comp.capacityFix = <<[l \in Locations |-> 0]>>
              /\ comp.capacityMax = <<[l \in Locations |-> 0]>>
              /\ comp.capacityMin = <<[l \in Locations |-> 0]>>
              /\ comp.sharedPotentialID = <<>>

\* C9: getStock leaves every component of a domain without optimal values as it
\* is, registers no component in such a domain and makes no stock from its
\* components; with no optimal values at all the model is returned as it came.
C9_DomainWithoutResultUntouched ==
    [][RollCalled =>
        /\ \A d \in DomainSet :
              IsNone(Before.optimum[d]) =>
                  /\ After.components[d] = Before.components[d]
                  /\ \A c \in DOMAIN Before.components[d] : \A x \in Added :
                        ~IsPrefix(c, x)
        /\ (\A d \in DomainSet : IsNone(Before.optimum[d])) =>
              /\ After = Before
              /\ Added = {}
              /\ pc' = "loop"]_vars

\* after a roll: a domain with components and no optimal values next to a domain
\* whose stock component was rolled
C9_Witness ==
    /\ pc = "loop" /\ step = 1
    /\ \E d1, d2 \in DomainSet :
          /\ d1 # d2
          /\ IsNone(modelHeap[esM].optimum[d1])
          /\ DOMAIN modelHeap[esM].componentsDict[d1] # {}
          /\ ~IsNone(modelHeap[esM].optimum[d2])
          /\ \E nm \in DOMAIN Val(modelHeap[esM].optimum[d2]) :
                /\ IsStockName(nm)
                /\ compHeap[modelHeap[esM].componentsDict[d2][nm]].lifetime
                      # compHeap[modelHeap[esM].componentsDict[d2][nm]].technicalLifetime

\* C10: when optimize raises at step k the exception leaves optimizeMyopic, no
\* call of a later step is made, no entry for step k exists, and the entries of
\* the steps 0..k-1 are in the mapping the caller has.
C10_PriorResultsReachCaller ==
    (pc = "raised" /\ error = "SolverFailure") =>
        /\ \A i \in DOMAIN calls : calls[i].step <= step
        /\ calls[Len(calls)].op = "optimize"
        /\ Chars(args.startYear + step * nbOfRepresentedYears)
              \notin DOMAIN myopicResults
        /\ \A j \in 0..(step - 1) :
              /\ ~IsNone(returned)
              /\ Chars(args.startYear + j * nbOfRepresentedYears)
                    \in DOMAIN Val(returned)

----------------------------------------------------------------------------
(* The order of the calls *)

\* the calls of one step, in the order of the claim
StepCalls ==
    IF args.timeSeriesAggregation
    THEN <<"cluster", "optimize", "export", "snapshot", "getStock">>
    ELSE <<"optimize", "export", "snapshot", "getStock">>

\* C11: the calls are made strictly in sequence: for step 0, 1, ... one cluster
\* (exactly if time series aggregation is on), one optimize, one export, one
\* snapshot, one getStock, each step after the getStock of the step before has
\* returned; every call of step k+1 is made on the object that the getStock of
\* step k returned, which nothing touches in between; a campaign that returns
\* has made these calls once for each of its nbOfSteps+1 steps.
C11_StrictlySequential ==
    [][/\ \A i \in DOMAIN calls' :
             /\ calls'[i].op = StepCalls[((i - 1) % Len(StepCalls)) + 1]
             /\ calls'[i].step = (i - 1) \div Len(StepCalls)
             /\ (i > 1 /\ calls'[i - 1].op = "getStock") =>
                    calls'[i].model = calls'[i - 1].result
             /\ (i > 1 /\ calls'[i - 1].op # "getStock") =>
                    calls'[i].model = calls'[i - 1].model
       /\ pc' = "done" => Len(calls') = Len(StepCalls) * (nbOfSteps + 1)
       /\ pc \in {"loop", "cluster"} =>
             ModelValue(modelHeap', compHeap', esM) = ModelValue(modelHeap, compHeap, esM)
      ]_vars

\* three steps with aggregation: fifteen calls, the last one the roll of step 2
C11_Witness ==
    /\ pc = "done" /\ nbOfSteps = 2 /\ args.timeSeriesAggregation
    /\ Len(calls) = 15
    /\ calls[15].op = "getStock" /\ calls[15].step = 2
    /\ calls[6].op = "cluster" /\ calls[6].step = 1
    /\ calls[7].op = "optimize" /\ calls[7].model = calls[5].result

----------------------------------------------------------------------------
(* Configuration errors *)

\* what the caller got wrong: the horizon, targets without the CO2 sink, or a
\* target list whose length is not the number of steps
HorizonMisconfigured == args.nbOfSteps < 1
SinkMissing ==
    ~IsNone(args.CO2ReductionTargets) /\ ~modelHeap[args.esM].co2Sink
TargetLengthMismatch ==
    /\ ~IsNone(args.CO2ReductionTargets)
    /\ Len(Val(args.CO2ReductionTargets)) # args.nbOfSteps

\* C12: a campaign with a misconfigured horizon, with targets but no CO2 sink,
\* or with a target list of the wrong length ends in a ConfigurationError at
\* the three checks, and when that error is raised no cluster, optimize,
\* export, snapshot or getStock call has been made, nothing is stored and the
\* model is as the caller passed it.
C12_ConfigurationErrorBeforeAnySolve ==
    [][/\ (pc = "validate" /\ (\/ HorizonMisconfigured
                              \/ SinkMissing
                              \/ TargetLengthMismatch)) =>
             (pc' = "raised" /\ error' = "ConfigurationError")
       /\ error' = "ConfigurationError" =>
             /\ pc = "validate"
             /\ calls' = <<>>
             /\ myopicResults' = EmptyDict
             /\ modelHeap' = modelHeap /\ compHeap' = compHeap
             /\ \A d \in DomainSet : IsNone(modelHeap'[args.esM].optimum[d])
      ]_vars

\* one target more than nbOfSteps on a model that has the sink: the error
C12_Witness ==
    /\ pc = "raised" /\ error = "ConfigurationError"
    /\ args.nbOfSteps = MaxSteps
    /\ modelHeap[args.esM].co2Sink
    /\ ~IsNone(args.CO2ReductionTargets)
    /\ Len(Val(args.CO2ReductionTargets)) = args.nbOfSteps + 1
    /\ calls = <<>>

----------------------------------------------------------------------------
(* Expired stock *)

\* capacityFix, capacityMax and capacityMin zero everywhere, no shared potential
Zeroed(comp) ==
    /\ comp.capacityFix = Some(ZeroSeries)
    /\ comp.capacityMax = Some(ZeroSeries)
    /\ comp.capacityMin = Some(ZeroSeries)
    /\ IsNone(comp.sharedPotentialID)

\* a component object whose lifetime has run out somewhere and that is zeroed
Retired(comp) == AnyNonPositive(comp.lifetime) /\ Zeroed(comp)

\* C13: in every state, every component that getStock has created (in the live
\* model and in every snapshot of it) whose lifetime is <= 0 at some location
\* has capacityFix, capacityMax and capacityMin zero at every location and no
\* sharedPotentialID; and a component for which this has come to hold stays so
\* in every later state.
C13_ExpiredStockIsZeroed ==
    [][\A c \in DOMAIN compHeap' :
          compHeap'[c].name \in AllAdded' =>
             /\ AnyNonPositive(compHeap'[c].lifetime) => Zeroed(compHeap'[c])
             /\ (c \in DOMAIN compHeap /\ Retired(compHeap[c])) =>
                    Retired(compHeap'[c])
      ]_vars

\* a stock made in 2020 with lifetime 5, retired by the roll of 2030 and rolled
\* once more in 2040: lifetime -15 and still zeroed
C13_Witness ==
    /\ pc = "loop" /\ step = 3
    /\ \E d \in DomainSet : \E nm \in DOMAIN modelHeap[esM].componentsDict[d] :
          LET comp == compHeap[modelHeap[esM].componentsDict[d][nm]]
          IN  /\ nm \in AllAdded
              /\ nm = Marked(OriginalName(d), args.startYear)
              /\ \A l \in Locations : comp.lifetime[l] = -15
              /\ Retired(comp)

----------------------------------------------------------------------------
(* Original components *)

\* C14: a call of getStock, whether it returns or raises, leaves every
\* component of the model whose name has no stock marker registered under the
\* same name, the same object, with the same name, technicalLifetime,
\* lifetime, capacityFix, capacityMax, capacityMin and sharedPotentialID.
C14_OriginalsNotMutated ==
    [][RollCalled =>
        \A d \in DomainSet : \A nm \in DOMAIN modelHeap[esM].componentsDict[d] :
            LET c == modelHeap[esM].componentsDict[d][nm]
            IN  ~Contains(compHeap[c].name, StockWord) =>
                   /\ nm \in DOMAIN modelHeap'[esM].componentsDict[d]
                   /\ modelHeap'[esM].componentsDict[d][nm] = c
                   /\ compHeap'[c] = compHeap[c]
      ]_vars

\* two rolls have each made a stock from an original, which is as it was passed
C14_Witness ==
    /\ pc = "loop" /\ step = 2
    /\ \E d \in DomainSet :
          /\ {Marked(OriginalName(d), args.startYear),
              Marked(OriginalName(d), args.startYear + args.nbOfRepresentedYears)}
                \subseteq DOMAIN modelHeap[esM].componentsDict[d]
          /\ OriginalName(d) \in DOMAIN modelHeap[esM].componentsDict[d]
          /\ LET comp == compHeap[modelHeap[esM].componentsDict[d][OriginalName(d)]]
             IN  /\ comp.name = OriginalName(d)
                 /\ comp.lifetime = comp.technicalLifetime
                 /\ comp.capacityMax = Some([l \in Locations |-> 8])
                 /\ comp.sharedPotentialID = Some("pot")

----------------------------------------------------------------------------
(* Registration *)

\* the caller's model had no component with a stock marker in its name: every
\* such name in it now was registered by getStock
StartedWithoutStock ==
    \A nm \in NamesOf(ModelValue(modelHeap, compHeap, args.esM)) :
        Contains(nm, StockWord) => nm \in AllAdded

\* the getStock entries of the log
Rolls == {i \in DOMAIN calls : calls[i].op = "getStock"}

\* C15: in a campaign (nbOfRepresentedYears >= 1) on a model that had no
\* stock-marked component, all the names that esM.add registers, over all
\* getStock calls, are different, and no call ends in a registration
\* collision, that is, no add is made under a name that is present.
C15_NoRegistrationCollision ==
    StartedWithoutStock =>
        /\ error # "RegistrationCollision"
        /\ \A i, j \in Rolls : \A a \in DOMAIN calls[i].adds, b \in DOMAIN calls[j].adds :
              calls[i].adds[a] = calls[j].adds[b] => (i = j /\ a = b)

\* a campaign of three steps has returned and made a stock in every roll
C15_Witness ==
    /\ pc = "done" /\ nbOfSteps = 2
    /\ StartedWithoutStock
    /\ \A i \in Rolls : Len(calls[i].adds) = 1
    /\ Cardinality(AllAdded) = 3

----------------------------------------------------------------------------
(* Creation and the optimal capacity *)

\* a row of the table with no capacity at any location (or link)
ZeroCapacity(row) ==
    \A k \in DOMAIN row.data :
        IF row.frame THEN row.data[k] = NaN \/ row.data[k] = Some(0)
        ELSE row.data[k] = 0

\* C16: getStock creates no stock component for a non-stock component whose
\* optimal capacity in the step just solved is zero at every location.
C16_NoStockWithoutCapacity ==
    [][RollCalled =>
        \A d \in DomainSet : \A c \in ProcessedOriginals(d) :
            ZeroCapacity(Val(Before.optimum[d])[c]) =>
                Marked(c, mileStoneYear) \notin Added
      ]_vars

----------------------------------------------------------------------------
(* Lifetimes of stock *)

\* C17: no step increases the lifetime of an existing stock component at any
\* location: for every component object whose name has the stock marker, in
\* the live model and in the snapshots, the lifetime after a step is at most
\* the lifetime before it (nbOfRepresentedYears = 10 in the model).
C17_StockLifetimeNeverIncreases ==
    [][\A c \in DOMAIN compHeap :
          Contains(compHeap[c].name, StockWord) =>
             /\ c \in DOMAIN compHeap'
             /\ compHeap'[c].name = compHeap[c].name
             /\ \A l \in Locations : compHeap'[c].lifetime[l] <= compHeap[c].lifetime[l]
      ]_vars

\* a stock made in 2020 from technicalLifetime (15, 25) has been rolled once:
\* its lifetime went from (5, 15) to (-5, 5)
C17_Witness ==
    /\ pc = "loop" /\ step = 2
    /\ \E d \in DomainSet : \E nm \in DOMAIN modelHeap[esM].componentsDict[d] :
          LET comp == compHeap[modelHeap[esM].componentsDict[d][nm]]
          IN  /\ nm = Marked(OriginalName(d), args.startYear)
              /\ nm \in AllAdded
              /\ comp.technicalLifetime = Lifetime(15, 25)
              /\ comp.lifetime = Lifetime(-5, 5)

----------------------------------------------------------------------------
(* Names of stock *)

\* the components of the caller's model without a stock marker in the name
Originals ==
    {nm \in NamesOf(ModelValue(modelHeap, compHeap, args.esM)) :
        ~Contains(nm, StockWord)}

\* how often the stock marker occurs in a name
Occurrences(name) ==
    Cardinality({i \in 1..Len(name) :
                    /\ i + Len(StockWord) - 1 <= Len(name)
                    /\ SubSeq(name, i, i + Len(StockWord) - 1) = StockWord})

YearOfStep(s) == args.startYear + s * args.nbOfRepresentedYears

\* C18: every name that getStock registers is <c>_stock_<Y>, Y the milestone
\* year of the step of that call, for exactly one component c of the model
\* that has no stock marker; the marker occurs once in it (a stock is never
\* the origin of a stock); and the components made by getStock number at most
\* the calls of getStock times the components without a marker.
C18_StockNames ==
    /\ \A i \in Rolls : \A j \in DOMAIN calls[i].adds :
          /\ Cardinality({c \in Originals :
                calls[i].adds[j] = Marked(c, YearOfStep(calls[i].step))}) = 1
          /\ Occurrences(calls[i].adds[j]) = 1
    /\ Cardinality({nm \in NamesOf(ModelValue(modelHeap, compHeap, args.esM)) :
                       nm \in AllAdded})
          <= Cardinality(Rolls) * Cardinality(Originals)

\* after two rolls: <c>_stock_2020 made by the first, <c>_stock_2030 by the
\* second, while <c>_stock_2020 was in the table of the second step
C18_Witness ==
    /\ pc = "optimize" /\ step = 2
    /\ \E d \in DomainSet :
          /\ calls[Len(calls)].adds = <<Marked(OriginalName(d), YearOfStep(1))>>
          /\ Marked(OriginalName(d), YearOfStep(0)) \in AllAdded
          /\ Marked(OriginalName(d), YearOfStep(0)) \in
                DOMAIN Val(ModelValue(modelHeap, compHeap,
                                      myopicResults[Chars(YearOfStep(1))]).optimum[d])

----------------------------------------------------------------------------
(* Snapshots and the roll of their year *)

SnapshotValue(s) == ModelValue(modelHeap, compHeap, myopicResults[Chars(YearOfStep(s))])

\* the names of the components of the model object m
NamesIn(mh, m) == UNION {DOMAIN mh[m].componentsDict[d] : d \in DomainSet}

\* C19: the snapshot stored under ESM_<Y> is the model as it was solved, before
\* the roll of year Y: it has the value of the model at line 94 and no getStock
\* call of step Y precedes it; in a campaign on a model without stock-marked
\* components it holds no component named <c>_stock_<Y> or later; no roll,
\* of year Y or later, puts a component it makes into a stored snapshot; and
\* the roll of year Y finds each stock with the lifetime the snapshot shows
\* and leaves it nbOfRepresentedYears lower, the snapshot unchanged.
C19_SnapshotBeforeRoll ==
    [][/\ (pc = "snapshot" /\ pc' = "roll") =>
             /\ ModelValue(modelHeap', compHeap', myopicResults'[Chars(mileStoneYear)])
                   = ModelValue(modelHeap, compHeap, esM)
             /\ \A i \in Rolls : calls[i].step < step
             /\ StartedWithoutStock =>
                   \A c \in Originals, t \in step..MaxSteps :
                       Marked(c, YearOfStep(t)) \notin
                           NamesIn(modelHeap', myopicResults'[Chars(mileStoneYear)])
       /\ RollCalled =>
             \A k \in DOMAIN myopicResults :
                 Added \cap NamesIn(modelHeap', myopicResults[k]) = {}
       /\ RollReturns =>
             \A d \in DomainSet : \A c \in ProcessedStocks(d) :
                 /\ SnapshotValue(step).components[d][c].lifetime
                       = Before.components[d][c].lifetime
                 /\ \A l \in Locations :
                       After.components[d][c].lifetime[l]
                          = ModelValue(modelHeap', compHeap',
                                       myopicResults[Chars(mileStoneYear)])
                                .components[d][c].lifetime[l]
                               - nbOfRepresentedYears
      ]_vars

\* the campaign has returned; ESM_2030 holds <c>_stock_2020 with lifetime 5,
\* not <c>_stock_2030, and in the model the stock of 2020 is at -15
C19_Witness ==
    /\ pc = "done" /\ nbOfSteps = 2
    /\ \E d \in DomainSet :
          LET old == Marked(OriginalName(d), YearOfStep(0))
              new == Marked(OriginalName(d), YearOfStep(1))
          IN  /\ {old, new} \subseteq AllAdded
              /\ old \in DOMAIN SnapshotValue(1).components[d]
              /\ new \notin DOMAIN SnapshotValue(1).components[d]
              /\ \A l \in Locations : SnapshotValue(1).components[d][old].lifetime[l] = 5
              /\ \A l \in Locations :
                    ModelValue(modelHeap, compHeap, esM).components[d][old].lifetime[l] = -15

----------------------------------------------------------------------------
(* The lifetime of a stock over the campaign *)

\* the stock nm of domain d was in the table of every step from s to t
InTableOfSteps(d, nm, s, t) ==
    \A k \in s..t :
        /\ ~IsNone(SnapshotValue(k).optimum[d])
        /\ nm \in DOMAIN Val(SnapshotValue(k).optimum[d])

\* C20: in the model about to be solved for milestone year M, a stock made by
\* getStock at year Y < M that was in the table of every step between has, at
\* every location, lifetime technicalLifetime - (M - Y): it is not decremented
\* by the roll that makes it and once by every later roll; and it is zeroed
\* exactly if that value is <= 0 at some location, so the roll that zeroes it
\* is the one after which this first holds.
C20_StockLifetimeIsRemainingLife ==
    pc = "optimize" =>
        \A i \in Rolls : \A j \in DOMAIN calls[i].adds :
            \A d \in DomainSet :
                LET nm == calls[i].adds[j]
                    Y == YearOfStep(calls[i].step)
                IN  (/\ nm \in DOMAIN modelHeap[esM].componentsDict[d]
                     /\ InTableOfSteps(d, nm, calls[i].step + 1, step - 1)) =>
                       LET comp == compHeap[modelHeap[esM].componentsDict[d][nm]]
                           left == [l \in Locations |->
                                       comp.technicalLifetime[l] - (mileStoneYear - Y)]
                       IN  /\ comp.lifetime = left
                           /\ Zeroed(comp) <=> AnyNonPositive(left)

\* the model to be solved for 2040 holds the stock of 2020 of technicalLifetime
\* (15, 25), rolled once: lifetime (-5, 5) and zeroed
C20_Witness ==
    /\ pc = "optimize" /\ step = 2
    /\ \E d \in DomainSet :
          LET nm == Marked(OriginalName(d), YearOfStep(0))
          IN  /\ nm \in AllAdded
              /\ InTableOfSteps(d, nm, 1, 1)
              /\ LET comp == compHeap[modelHeap[esM].componentsDict[d][nm]]
                 IN  /\ comp.technicalLifetime = Lifetime(15, 25)
                     /\ comp.lifetime = Lifetime(-5, 5)
                     /\ Zeroed(comp)

====
